---- MODULE Spec2Model ----
(***************************************************************************)
(* Model of the language scaffolding generators scripts/new_lang.py (the   *)
(* "centralized" strategy, which also patches six shared host files) and   *)
(* scripts/new_lang_peg.py (the "self-contained" strategy).                *)
(*                                                                         *)
(* Text is modelled at two levels.  Identifiers, extensions and path       *)
(* components are sequences of one-character strings, so that lower(),     *)
(* upper(), title(), lstrip(".") and the regular expression are computed.  *)
(* File contents are sequences of tokens <<kind, h, r, s>>:                *)
(*   <<"A", h, r, <<>>>>  the anchor literal of record r of host file h    *)
(*   <<"I", h, r, n>>     the text record r of host file h inserts for the *)
(*                        identifier n (lower case)                        *)
(*   <<"T", h, i, <<>>>>  hand-written text chunk i of host file h, which  *)
(*                        holds no anchor and no guard                     *)
(*   <<"R", s, t, subs>>  template t of strategy s rendered with subs      *)
(*   <<"M", 0, 0, <<>>>>  a manually edited artifact                       *)
(* The substring tests of the code (guard in content, str.replace of an    *)
(* anchor) are computed on the tokens from what each token's text holds.   *)
(***************************************************************************)
EXTENDS Integers, Sequences, FiniteSets, TLC

\* files  path -> content, for every regular file that exists
\* dirs   the directories that exist
\* env    what an invocation cannot change: which script is run (strategy),
\*        the paths the system refuses to write (denied), and the command
\*        lines that may be given (names, exts, dry)
\* pc     process -> position of its invocation: "idle", "emit", "host_read",
\*        "host_write", "finish", or an end: "done", "exit", "crash"
\* run    process -> the locals of main() and generate_language(), the exit
\*        status, the lines printed, and the files and directories found at
\*        the start of the invocation (files0, dirs0)
\* nruns  process -> number of invocations started
VARIABLES files, dirs, env, pc, run, nruns

vars == <<files, dirs, env, pc, run, nruns>>

\* Number of generator invocations explored per process.
MaxRuns == 2

-----------------------------------------------------------------------------
(* Characters and the string functions of the scripts *)

LowerLetters == {"a", "b", "d", "f", "g", "i", "k", "l", "m", "o", "r", "u"}
Digits == {"1"}

LowerSeq == <<"a", "b", "d", "f", "g", "i", "k", "l", "m", "o", "r", "u">>
UpperSeq == <<"A", "B", "D", "F", "G", "I", "K", "L", "M", "O", "R", "U">>

IndexOf(seq, c) == CHOOSE i \in 1..Len(seq) : seq[i] = c
InSeq(seq, c) == \E i \in 1..Len(seq) : seq[i] = c

LowerChar(c) == IF InSeq(UpperSeq, c) THEN LowerSeq[IndexOf(UpperSeq, c)] ELSE c
UpperChar(c) == IF InSeq(LowerSeq, c) THEN UpperSeq[IndexOf(LowerSeq, c)] ELSE c
IsLetter(c) == InSeq(LowerSeq, c) \/ InSeq(UpperSeq, c)

\* str.lower()
to_lower(name) == [i \in 1..Len(name) |-> LowerChar(name[i])]

\* str.upper()
to_upper(name) == [i \in 1..Len(name) |-> UpperChar(name[i])]

\* str.title(): a letter is upper-cased when it follows a non-letter (or
\* starts the string) and lower-cased otherwise.
to_title(name) ==
    [i \in 1..Len(name) |->
        IF i = 1 \/ ~IsLetter(name[i - 1])
        THEN UpperChar(name[i])
        ELSE LowerChar(name[i])]

\* The pattern without its first-character rule: [a-z0-9]+
ReMatch_any_alnum(name) ==
    /\ Len(name) >= 1
    /\ \A i \in 1..Len(name) : name[i] \in LowerLetters \cup Digits

\* re.match(r'^[a-z][a-z0-9]*$', name): Python's $ matches at the end of the
\* string and also just before a newline that ends the string.
ReMatch(name) ==
    LET body == IF Len(name) >= 2 /\ name[Len(name)] = "\n"
                THEN SubSeq(name, 1, Len(name) - 1)
                ELSE name
    IN /\ Len(body) >= 1
       /\ body[1] \in LowerLetters
       /\ \A i \in 2..Len(body) : body[i] \in LowerLetters \cup Digits

\* A strip that leaves the dots where they are
LStrip_keeps_dots(e) == e

RECURSIVE LStrip(_)
\* e.lstrip("."): drop every leading dot
LStrip(e) == IF Len(e) >= 1 /\ e[1] = "." THEN LStrip(Tail(e)) ELSE e

IsPrefix(s, t) == Len(s) <= Len(t) /\ SubSeq(t, 1, Len(s)) = s

-----------------------------------------------------------------------------
(* Paths: a path is a sequence of components, a component a sequence of    *)
(* pieces; an interpolated identifier contributes its characters.          *)

Lit(s) == <<s>>

\* Path(__file__).resolve().parent is <grand>/<parent>/scripts
RootP == <<Lit("G"), Lit("P")>>
RootG == <<Lit("G")>>
NoRoot == <<Lit("?")>>

Marker(root) == Append(root, Lit("CMakeLists.txt"))

Parent(path) == SubSeq(path, 1, Len(path) - 1)
Ancestors(path) == {SubSeq(path, 1, k) : k \in 1..(Len(path) - 1)}

RECURSIVE Split(_)
\* The components a path string falls into at its "/" separators.
Split(c) ==
    IF \A i \in 1..Len(c) : c[i] # "/" THEN <<c>>
    ELSE LET i == CHOOSE i \in 1..Len(c) :
                      c[i] = "/" /\ \A j \in 1..(i - 1) : c[j] # "/"
         IN <<SubSeq(c, 1, i - 1)>> \o Split(SubSeq(c, i + 1, Len(c)))

RECURSIVE Components(_)
\* Path(...) / "a" / f"melody.{ext}": an interpolated "/" separates components.
Components(path) ==
    IF path = <<>> THEN <<>> ELSE Split(Head(path)) \o Components(Tail(path))

DotDot == <<".", ".">>

RECURSIVE Walk(_, _)
Walk(at, cs) ==
    IF cs = <<>> THEN at
    ELSE Walk(IF Head(cs) = DotDot THEN Parent(at) ELSE Append(at, Head(cs)), Tail(cs))

\* Whether resolving the path takes more than reading its components: an
\* interpolated separator or a ".." component.
Indirect(path) ==
    \E i \in 1..Len(path) :
        path[i] = DotDot \/ \E j \in 1..Len(path[i]) : path[i][j] = "/"

\* The file or directory the operating system reaches by a path handed to
\* mkdir, open or stat: ".." steps to the parent directory.
Resolve(path) == IF Indirect(path) THEN Walk(<<>>, Components(path)) ELSE path

\* The directories on the way to path, and path itself, as the operating
\* system reaches them.
Prefixes(path) ==
    IF Indirect(path)
    THEN LET cs == Components(path)
         IN {Walk(<<>>, SubSeq(cs, 1, k)) : k \in 1..Len(cs)}
    ELSE Ancestors(path) \cup {path}

\* Path.exists()
Exists(fs, path) == path \in DOMAIN fs.files \/ path \in fs.dirs

\* Root discovery that settles for the parent directory when no marker is found.
get_project_root_assumes_parent(fs) ==
    IF Exists(fs, Marker(RootG)) /\ ~Exists(fs, Marker(RootP)) THEN RootG ELSE RootP

\* get_project_root()
get_project_root(fs) ==
    IF Exists(fs, Marker(RootP)) THEN RootP
    ELSE IF Exists(fs, Marker(RootG)) THEN RootG
    ELSE NoRoot

-----------------------------------------------------------------------------
(* Rendered templates *)

\* The substitutions of generate_language: name forms and extension forms.
\* ext_c / ext_lua list "." + e.lstrip(".") for every extension; ext is the
\* first extension without its dots.
Subs(name, extensions) ==
    <<to_lower(name), to_upper(name), to_title(name)>>
      \o [i \in 1..Len(extensions) |-> <<".">> \o LStrip(extensions[i])]
      \o <<LStrip(extensions[1])>>

StrategyId(strategy) == IF strategy = "central" THEN 1 ELSE 2

\* TEMPLATE.format(**subs)
Render(strategy, t, name, extensions) ==
    << <<"R", StrategyId(strategy), t, Subs(name, extensions)>> >>

Manual == << <<"M", 0, 0, <<>>>> >>

\* The emission sequence of new_lang.py: fourteen create_file calls and the
\* creation of the impl directory, in source order.
CentralArtifacts(root, name) ==
    LET n        == to_lower(name)
        lang_dir == root \o <<Lit("src"), Lit("lang"), n>>
        impl_dir == Append(lang_dir, Lit("impl"))
        test_dir == root \o <<Lit("tests"), n>>
    IN << [kind |-> "file", path |-> Append(lang_dir, Lit("register.h"))],
          [kind |-> "file", path |-> Append(lang_dir, Lit("register.c"))],
          [kind |-> "file", path |-> Append(lang_dir, Lit("repl.h"))],
          [kind |-> "file", path |-> Append(lang_dir, Lit("repl.c"))],
          [kind |-> "file", path |-> Append(lang_dir, Lit("dispatch.c"))],
          [kind |-> "dir",  path |-> impl_dir],
          [kind |-> "file", path |-> Append(impl_dir, n \o <<"_parser.h">>)],
          [kind |-> "file", path |-> Append(impl_dir, n \o <<"_parser.c">>)],
          [kind |-> "file", path |-> Append(impl_dir, n \o <<"_runtime.h">>)],
          [kind |-> "file", path |-> Append(impl_dir, n \o <<"_runtime.c">>)],
          [kind |-> "file",
           path |-> root \o <<Lit("scripts"), Lit("cmake"),
                              <<"psnd_">> \o n \o <<"_library.cmake">> >>],
          [kind |-> "file", path |-> Append(test_dir, Lit("CMakeLists.txt"))],
          [kind |-> "file", path |-> Append(test_dir, Lit("test_parser.c"))],
          [kind |-> "file",
           path |-> root \o <<Lit("docs"), n, Lit("README.md")>>],
          [kind |-> "file",
           path |-> root \o <<Lit(".psnd"), Lit("languages"), n \o <<".lua">> >>] >>

\* source/langs/<name> of new_lang_peg.py
PegLangDir(root, name) == root \o <<Lit("source"), Lit("langs"), to_lower(name)>>

\* The emission sequence of new_lang_peg.py: thirteen create_file calls.
PegArtifacts(root, name, extensions) ==
    LET n        == to_lower(name)
        lang_dir == PegLangDir(root, name)
        impl_dir == Append(lang_dir, Lit("impl"))
        test_dir == Append(lang_dir, Lit("tests"))
    IN << [kind |-> "file", path |-> Append(impl_dir, n \o <<"_grammar.peg">>)],
          [kind |-> "file", path |-> Append(impl_dir, n \o <<"_runtime.h">>)],
          [kind |-> "file", path |-> Append(impl_dir, n \o <<"_runtime.c">>)],
          [kind |-> "file", path |-> Append(lang_dir, Lit("register.h"))],
          [kind |-> "file", path |-> Append(lang_dir, Lit("register.c"))],
          [kind |-> "file", path |-> Append(lang_dir, Lit("repl.c"))],
          [kind |-> "file", path |-> Append(lang_dir, Lit("dispatch.c"))],
          [kind |-> "file", path |-> Append(lang_dir, Lit("CMakeLists.txt"))],
          [kind |-> "file", path |-> Append(test_dir, Lit("CMakeLists.txt"))],
          [kind |-> "file", path |-> Append(test_dir, Lit("test_parser.c"))],
          [kind |-> "file", path |-> Append(lang_dir, Lit("README.md"))],
          [kind |-> "file",
           path |-> root \o <<Lit(".psnd"), Lit("languages"), n \o <<".lua">> >>],
          [kind |-> "file",
           path |-> lang_dir \o <<Lit("examples"),
                                  <<"melody.">> \o LStrip(extensions[1])>>] >>

Artifacts(strategy, root, name, extensions) ==
    IF strategy = "central"
    THEN CentralArtifacts(root, name)
    ELSE PegArtifacts(root, name, extensions)

\* reserved = ["alda", "joy", "bog", "tr7", "scheme"] of new_lang_peg.py main;
\* of these only "bog" is spelled with the characters the model draws from.
Reserved == { <<"b", "o", "g">> }

-----------------------------------------------------------------------------
(* The six shared host files of new_lang.py and their patch records *)

HostCount == 6
Hosts == 1..HostCount

HostPath(root, h) ==
    CASE h = 1 -> root \o <<Lit("src"), Lit("lang_config.h")>>
      [] h = 2 -> root \o <<Lit("src"), Lit("lang_dispatch.c")>>
      [] h = 3 -> root \o <<Lit("CMakeLists.txt")>>
      [] h = 4 -> root \o <<Lit("scripts"), Lit("cmake"),
                            <<"psnd_", "l", "o", "k", "i", "_library.cmake">> >>
      [] h = 5 -> root \o <<Lit("scripts"), Lit("cmake"), Lit("psnd_psnd_binary.cmake")>>
      [] h = 6 -> root \o <<Lit("scripts"), Lit("cmake"), Lit("psnd_tests.cmake")>>

\* Number of marker/addition pairs applied to host file h.
RecordCount(h) ==
    CASE h = 1 -> 5
      [] h = 2 -> 2
      [] h = 3 -> 2
      [] h = 4 -> 2
      [] h = 5 -> 1
      [] h = 6 -> 1

\* lang_dispatch.c is patched with replace(marker, addition + marker); every
\* other file with replace(marker, marker + addition).
InsertBefore(h) == h = 2

Anchor(h, r) == <<"A", h, r, <<>>>>
Ins(h, r, n) == <<"I", h, r, n>>
Text(h, i) == <<"T", h, i, <<>>>>

Bog == <<"b", "o", "g">>

\* The addition of record r of host file h for identifier n, as tokens.  The
\* include addition of lang_dispatch.c for "bog" begins with the text of its
\* own marker ("#ifdef LANG_BOG\n#include").
Addition(h, r, n) ==
    IF h = 2 /\ r = 1 /\ n = Bog
    THEN <<Anchor(2, 1), Ins(h, r, n)>>
    ELSE <<Ins(h, r, n)>>

\* The upper-case identifiers X for which the token's text holds "LANG_X"
\* followed by a character that cannot continue an identifier.
LangNames(tok) ==
    CASE tok[1] = "A" -> IF tok[2] = 2 /\ tok[3] = 2 THEN {} ELSE {to_upper(Bog)}
      [] tok[1] = "I" -> {to_upper(tok[4])}
      [] OTHER -> {}

\* The identifiers x for which the token's text holds "x" in double quotes:
\* only the dispatch addition (strcmp(lang, "x")) quotes the bare identifier.
QuotedNames(tok) ==
    IF tok[1] = "I" /\ tok[2] = 2 /\ tok[3] = 2 THEN {tok[4]} ELSE {}

\* The identifiers x for which the token's text holds "tests/x" followed by
\* a character that cannot continue an identifier.
TestsNames(tok) ==
    CASE tok[1] = "A" /\ tok[2] = 6 -> {Bog}
      [] tok[1] = "I" /\ tok[2] = 6 -> {tok[4]}
      [] OTHER -> {}

Toks(content) == {content[i] : i \in 1..Len(content)}

\* Whether the text of one token holds the guard string of host file h for
\* the identifier: f"LANG_{name_upper}", f'"{name_lower}"' (lang_dispatch.c),
\* f"tests/{name_lower}" (psnd_tests.cmake).  A literal "LANG_" + U occurs in
\* a text iff U is a prefix of an identifier that follows "LANG_" there.
GuardInTok(h, name, tok) ==
    CASE h = 2 -> to_lower(name) \in QuotedNames(tok)
      [] h = 6 -> \E x \in TestsNames(tok) : IsPrefix(to_lower(name), x)
      [] OTHER -> \E x \in LangNames(tok) : IsPrefix(to_upper(name), x)

\* The "already added" test of host file h: guard in content.
GuardIn(h, name, content) ==
    \E tok \in Toks(content) : GuardInTok(h, name, tok)

\* How often the text of a token that holds the guard string of host file h
\* holds it: the helper macro block of lang_config.h spells LANG_X three
\* times, the link block of psnd_loki_library.cmake twice, the test block
\* tests/x twice, every other block its guard once.
GuardOccurrences(h, tok) ==
    CASE h = 2 -> 1
      [] h = 6 -> 2
      [] tok[1] = "I" /\ tok[2] = 1 /\ tok[3] = 1 -> 3
      [] tok[2] = 4 /\ tok[3] = 2 -> 2
      [] OTHER -> 1

RECURSIVE GuardCount(_, _, _)
\* content.count(guard)
GuardCount(h, name, content) ==
    IF content = <<>> THEN 0
    ELSE (IF GuardInTok(h, name, Head(content))
          THEN GuardOccurrences(h, Head(content)) ELSE 0)
           + GuardCount(h, name, Tail(content))

RECURSIVE Replace(_, _, _)
\* content.replace(old, new) where old is one anchor token: every occurrence
\* is replaced, left to right.
Replace(content, old, new) ==
    IF content = <<>> THEN <<>>
    ELSE (IF Head(content) = old THEN new ELSE <<Head(content)>>)
           \o Replace(Tail(content), old, new)

\* A substitution that puts the addition in the place of the marker
ApplyRecord_drops_anchor(content, h, r, n) ==
    Replace(content, Anchor(h, r), Addition(h, r, n))

\* One marker/addition pair: new_content.replace(marker, marker + addition),
\* or replace(marker, addition + marker) for lang_dispatch.c.
ApplyRecord(content, h, r, n) ==
    Replace(content, Anchor(h, r),
            IF InsertBefore(h)
            THEN Addition(h, r, n) \o <<Anchor(h, r)>>
            ELSE <<Anchor(h, r)>> \o Addition(h, r, n))

RECURSIVE ApplyRecords(_, _, _, _)
\* The chained replace calls of one host file, records 1..r in source order.
ApplyRecords(content, h, r, n) ==
    IF r = 0 THEN content
    ELSE ApplyRecord(ApplyRecords(content, h, r - 1, n), h, r, n)

\* Only the first marker/addition pair of a host file
Patch_first_record_only(content, h, name) == ApplyRecords(content, h, 1, to_lower(name))

\* new_content of host file h
Patch(content, h, name) == ApplyRecords(content, h, RecordCount(h), to_lower(name))

-----------------------------------------------------------------------------
(* File system primitives.  fs is a record [files, dirs, env]; env.denied  *)
(* is the set of paths the operating system refuses to write.              *)

\* Path.mkdir(parents=True, exist_ok=True): FileExistsError / NotADirectoryError
\* when the path or one of its ancestors is a regular file.
MkdirRaises(fs, path) == \E a \in Prefixes(path) : a \in DOMAIN fs.files

Mkdir(fs, path) == fs.dirs \cup Prefixes(path)

\* Path.write_text raises OSError on a path the system refuses to write, on a
\* directory, and below a missing parent.
WriteRaises(fs, path) ==
    \/ path \in fs.env.denied
    \/ path \in fs.dirs
    \/ Parent(path) \notin fs.dirs

\* path.parent
PathParent(path) == IF Indirect(path) THEN Parent(Components(path)) ELSE Parent(path)

\* create_file(path, content, dry_run): the result holds the new files and
\* dirs, the printed line, and whether an exception left the function.  The
\* line names the path as given, the file system is changed where the path
\* leads.
\* create_file without its dry-run early return
create_file_writes_in_dry_run(fs, path, content, dry_run) ==
    [files |-> (Resolve(path) :> content) @@ fs.files,
     dirs |-> Mkdir(fs, PathParent(path)),
     line |-> <<IF dry_run THEN "would_create" ELSE "created", path>>,
     raised |-> FALSE]

\* create_file that leaves an existing file alone
create_file_keeps_existing(fs, path, content, dry_run) ==
    IF dry_run
    THEN [files |-> fs.files, dirs |-> fs.dirs,
          line |-> <<"would_create", path>>, raised |-> FALSE]
    ELSE [files |-> IF Resolve(path) \in DOMAIN fs.files THEN fs.files
                    ELSE (Resolve(path) :> content) @@ fs.files,
          dirs |-> Mkdir(fs, PathParent(path)),
          line |-> <<"created", path>>, raised |-> FALSE]

create_file(fs, path, content, dry_run) ==
    LET parent == PathParent(path)
        target == Resolve(path)
    IN IF dry_run
       THEN [files |-> fs.files, dirs |-> fs.dirs,
             line |-> <<"would_create", path>>, raised |-> FALSE]
       ELSE IF MkdirRaises(fs, parent)
       THEN [files |-> fs.files, dirs |-> fs.dirs,
             line |-> <<"traceback", path>>, raised |-> TRUE]
       ELSE LET d == Mkdir(fs, parent)
            IN IF WriteRaises([fs EXCEPT !.dirs = d], target)
               THEN [files |-> fs.files, dirs |-> d,
                     line |-> <<"traceback", path>>, raised |-> TRUE]
               ELSE [files |-> (target :> content) @@ fs.files, dirs |-> d,
                     line |-> <<"created", path>>, raised |-> FALSE]

-----------------------------------------------------------------------------
(* One invocation as a step machine.  m is a record [files, dirs, env, pc, *)
(* run] for one process; every step operator maps m to its successor.      *)

Terminal == {"done", "exit", "crash"}

NoPath == <<>>

\* Local state of main() at entry.
NewRun(m, raw, exts_arg, dry) ==
    [raw |-> raw, name |-> to_lower(raw), args_extensions |-> exts_arg,
     extensions |-> <<>>, dry_run |-> dry,
     root |-> NoRoot, k |-> 0, h |-> 0, content |-> <<>>, status |-> 0,
     report |-> <<>>, files0 |-> m.files, dirs0 |-> m.dirs]

Say(r, line) == [r EXCEPT !.report = Append(@, line)]

\* sys.exit(1) after an error message
Exit1(m, r, path) ==
    [m EXCEPT !.pc = "exit",
              !.run = [Say(r, <<"error", path>>) EXCEPT !.status = 1]]

\* An exception nobody catches: traceback on stderr, exit status 1.
Crash(m, r, line) ==
    [m EXCEPT !.pc = "crash", !.run = [Say(r, line) EXCEPT !.status = 1]]

\* A default that spells the identifier in upper case
DefaultExtensions_upper(name, exts_arg) ==
    IF exts_arg # <<>> THEN exts_arg ELSE << <<".">> \o to_upper(name) >>

\* extensions = args.extensions if args.extensions else [f".{name}"]
DefaultExtensions(name, exts_arg) ==
    IF exts_arg # <<>> THEN exts_arg ELSE << <<".">> \o name >>

\* A main() whose generator does not look for the plugin directory
MainStep_overwrites_plugin(m, raw, exts_arg, dry) ==
    LET r0   == NewRun(m, raw, exts_arg, dry)
        name == r0.name
        root == get_project_root(m)
        r1   == [r0 EXCEPT !.extensions = DefaultExtensions(name, exts_arg),
                           !.root = root]
    IN IF ~ReMatch(name) THEN Exit1(m, r0, NoPath)
       ELSE IF m.env.strategy = "peg" /\ name \in Reserved THEN Exit1(m, r0, NoPath)
       ELSE IF root = NoRoot THEN Exit1(m, r1, NoPath)
       ELSE [m EXCEPT !.pc = "emit", !.run = [r1 EXCEPT !.k = 1]]

\* main() up to the first emission: validation, the reserved-name test of
\* new_lang_peg.py, the default extension, root discovery, and the
\* existing-directory test at the head of new_lang_peg.py generate_language.
MainStep(m, raw, exts_arg, dry) ==
    LET r0   == NewRun(m, raw, exts_arg, dry)
        name == r0.name
        root == get_project_root(m)
        r1   == [r0 EXCEPT !.extensions = DefaultExtensions(name, exts_arg),
                           !.root = root]
    IN IF ~ReMatch(name) THEN Exit1(m, r0, NoPath)
       ELSE IF m.env.strategy = "peg" /\ name \in Reserved THEN Exit1(m, r0, NoPath)
       ELSE IF root = NoRoot THEN Exit1(m, r1, NoPath)
       ELSE IF /\ m.env.strategy = "peg"
               /\ Exists(m, PegLangDir(root, name))
               /\ ~dry
       THEN Exit1(m, r1, PegLangDir(root, name))
       ELSE [m EXCEPT !.pc = "emit", !.run = [r1 EXCEPT !.k = 1]]

RunArtifacts(m) == Artifacts(m.env.strategy, m.run.root, m.run.name, m.run.extensions)

\* An emission loop that leaves out every other artifact
AfterEmit_skips_one(m, r) ==
    IF r.k + 1 < Len(RunArtifacts(m))
    THEN [m EXCEPT !.pc = "emit", !.run = [r EXCEPT !.k = @ + 2]]
    ELSE IF m.env.strategy = "central"
    THEN [m EXCEPT !.pc = "host_read", !.run = [r EXCEPT !.h = 1]]
    ELSE [m EXCEPT !.pc = "finish", !.run = r]

\* Where control goes after emission step k.
AfterEmit(m, r) ==
    IF r.k < Len(RunArtifacts(m))
    THEN [m EXCEPT !.pc = "emit", !.run = [r EXCEPT !.k = @ + 1]]
    ELSE IF m.env.strategy = "central"
    THEN [m EXCEPT !.pc = "host_read", !.run = [r EXCEPT !.h = 1]]
    ELSE [m EXCEPT !.pc = "finish", !.run = r]

\* One create_file call of generate_language.
EmitFileStep(m) ==
    LET art == RunArtifacts(m)[m.run.k]
        res == create_file(m, art.path,
                           Render(m.env.strategy, m.run.k, m.run.name, m.run.extensions),
                           m.run.dry_run)
        m1  == [m EXCEPT !.files = res.files, !.dirs = res.dirs]
    IN IF res.raised THEN Crash(m1, m.run, res.line)
       ELSE AfterEmit(m1, Say(m.run, res.line))

\* "Create impl directory" of new_lang.py generate_language.
MkImplDirStep(m) ==
    LET art == RunArtifacts(m)[m.run.k]
    IN IF m.run.dry_run
       THEN AfterEmit(m, Say(m.run, <<"would_create", art.path>>))
       ELSE IF MkdirRaises(m, art.path)
       THEN Crash(m, m.run, <<"traceback", art.path>>)
       ELSE AfterEmit([m EXCEPT !.dirs = Mkdir(m, art.path)],
                      Say(m.run, <<"created", art.path>>))

\* Where control goes after host file h.
AfterHost(m, r) ==
    IF r.h < HostCount
    THEN [m EXCEPT !.pc = "host_read", !.run = [r EXCEPT !.h = @ + 1]]
    ELSE [m EXCEPT !.pc = "finish", !.run = r]

\* A read step without the already-added test
HostReadStep_ignores_guard(m) ==
    LET path == HostPath(m.run.root, m.run.h)
    IN IF ~Exists(m, path) THEN AfterHost(m, m.run)
       ELSE IF path \notin DOMAIN m.files
       THEN Crash(m, m.run, <<"traceback", path>>)
       ELSE [m EXCEPT !.pc = "host_write",
                      !.run = [m.run EXCEPT !.content = m.files[path]]]

\* "if host.exists(): content = host.read_text()" and the already-added test.
\* A missing host file prints nothing.
HostReadStep(m) ==
    LET h    == m.run.h
        path == HostPath(m.run.root, h)
    IN IF ~Exists(m, path) THEN AfterHost(m, m.run)
       ELSE IF path \notin DOMAIN m.files
       THEN Crash(m, m.run, <<"traceback", path>>)
       ELSE LET content == m.files[path]
            IN IF GuardIn(h, m.run.name, content)
               THEN AfterHost(m, Say([m.run EXCEPT !.content = content],
                                     <<"skipped", path>>))
               ELSE [m EXCEPT !.pc = "host_write",
                              !.run = [m.run EXCEPT !.content = content]]

\* A patch step that reads the host file again and leaves it alone when the
\* guard has appeared since
HostWriteStep_rechecks(m) ==
    LET h    == m.run.h
        path == HostPath(m.run.root, h)
    IN IF path \in DOMAIN m.files /\ GuardIn(h, m.run.name, m.files[path])
       THEN AfterHost(m, Say(m.run, <<"skipped", path>>))
       ELSE AfterHost([m EXCEPT !.files = (path :> Patch(m.run.content, h, m.run.name)) @@ m.files],
                      Say(m.run, <<"updated", path>>))

\* The else branch: the chained replace calls, then write_text(new_content)
\* or the dry-run line.
HostWriteStep(m) ==
    LET h           == m.run.h
        path        == HostPath(m.run.root, h)
        new_content == Patch(m.run.content, h, m.run.name)
    IN IF m.run.dry_run
       THEN AfterHost(m, Say(m.run, <<"would_update", path>>))
       ELSE IF WriteRaises(m, path)
       THEN Crash(m, m.run, <<"traceback", path>>)
       ELSE AfterHost([m EXCEPT !.files = (path :> new_content) @@ m.files],
                      Say(m.run, <<"updated", path>>))

\* print("\nDone!") and the return to main(), which falls off its end.
FinishStep(m) == [m EXCEPT !.pc = "done", !.run = [m.run EXCEPT !.status = 0]]

-----------------------------------------------------------------------------
(* Inputs and initial file systems *)

Foo    == <<"F", "o", "o">>
OneBar == <<"1", "b", "a", "r">>
Empty  == <<>>
FooBar == <<"f", "o", "o", "-", "b", "a", "r">>
Drum   == <<"d", "r", "u", "m">>
A1     == <<"a", "1">>
Fog    == <<"f", "o", "g">>
Loki   == <<"l", "o", "k", "i">>
Bo     == <<"b", "o">>
ANewline == <<"a", "\n">>

\* The raw identifiers given on the command line; ANewline is given alone, in
\* layouts of its own.
RawNames == {Foo, OneBar, Empty, FooBar, Drum, A1}

\* -e/--extensions: absent (<<>>), "bar", ".bar"
ExtBar    == << <<"b", "a", "r">> >>
ExtDotBar == << <<".", "b", "a", "r">> >>

\* -e ..bar b
ExtTwo == << <<".", ".", "b", "a", "r">>, <<"b">> >>

\* -e x/../../../../../CMakeLists.txt: argparse takes any string.
ExtTraverse ==
    << <<"x", "/", ".", ".", "/", ".", ".", "/", ".", ".", "/", ".", ".",
         "/", ".", ".", "/", "CMakeLists.txt">> >>

\* -e x/../../README.md
ExtOntoReadme ==
    << <<"x", "/", ".", ".", "/", ".", ".", "/", "README.md">> >>

\* A host file as shipped: every anchor once, in record order, between
\* hand-written text.
RECURSIVE FullUpTo(_, _)
FullUpTo(h, r) ==
    IF r = 0 THEN <<Text(h, 0)>>
    ELSE FullUpTo(h, r - 1) \o <<Anchor(h, r), Text(h, r)>>

Full(h) == FullUpTo(h, RecordCount(h))

Without(content, tok) == SelectSeq(content, LAMBDA t : t # tok)
NoAnchors(content) == SelectSeq(content, LAMBDA t : t[1] # "A")

\* The states a host file may be found in: shipped, drifted (one anchor or
\* all anchors gone), or missing.
HostVariants(h) ==
    {[present |-> TRUE, content |-> Full(h)],
     [present |-> TRUE, content |-> NoAnchors(Full(h))],
     [present |-> FALSE, content |-> <<>>]}
    \cup {[present |-> TRUE, content |-> Without(Full(h), Anchor(h, r))] :
            r \in 1..RecordCount(h)}

HostBase == [h \in Hosts |-> [present |-> TRUE, content |-> Full(h)]]

\* Host layouts in which at most one of the six files deviates.
HostScenarios ==
    {HostBase}
      \cup UNION {{[HostBase EXCEPT ![h] = v] : v \in HostVariants(h)} : h \in Hosts}

\* Host layouts left by an interrupted or hand-reverted registration of
\* "drum": one file holds the block that carries its guard string but lacks
\* the block of another record, whose anchor is still there.
PartialHosts ==
    {[HostBase EXCEPT ![h] =
        [present |-> TRUE,
         content |-> ApplyRecord(Full(h), h, IF h = 2 THEN 2 ELSE 1, Drum)]] :
       h \in {g \in Hosts : RecordCount(g) > 1}}

\* Host layouts in which the literal of one file's first anchor occurs a
\* second time, further down the file.
DupHosts ==
    {[HostBase EXCEPT ![h] =
        [present |-> TRUE,
         content |-> Full(h) \o <<Anchor(h, 1), Text(h, RecordCount(h) + 1)>>]] :
       h \in Hosts}

\* The host layouts that come with a command-line pool of their own.
PoolHosts(pool) ==
    CASE pool = "partial" -> PartialHosts
      [] pool = "dup" -> DupHosts
      [] OTHER -> {}

ValidNames == {to_lower(n) : n \in {x \in RawNames : ReMatch(to_lower(x))}}

\* The artifact paths the system refuses to write in the "denied" layouts:
\* repl.c of every plugin.
DeniedPaths(strategy, root) ==
    {Artifacts(strategy, root, n, << <<".">> \o n >>)[IF strategy = "central" THEN 4 ELSE 6].path :
        n \in ValidNames}

\* Artifacts left by earlier work on the plugin "drum": a hand-edited
\* register.c in the plugin directory, or only a hand-edited drum.lua.
PreFiles(strategy, root, pre) ==
    LET arts == Artifacts(strategy, root, Drum, << <<".">> \o Drum >>)
    IN CASE pre = "plugin" ->
              {arts[IF strategy = "central" THEN 2 ELSE 5].path}
         [] pre = "lua" ->
              {arts[IF strategy = "central" THEN 15 ELSE 12].path}
         [] OTHER -> {}

\* The command lines a layout is exercised with: the identifiers that may be
\* given and the -e arguments that may accompany them.
Pools == {"std", "ext", "newline", "traverse", "fog", "loki", "bo", "partial", "dup"}

PoolNames(pool) ==
    CASE pool = "newline" -> {ANewline}
      [] pool = "ext" -> {Foo, Drum}
      [] pool = "traverse" -> {Drum}
      [] pool = "fog" -> {Fog}
      [] pool = "loki" -> {Loki, Drum}
      [] pool = "bo" -> {Bo}
      [] pool = "race" -> {Drum, A1}
      [] pool = "partial" -> {Drum}
      [] pool = "dup" -> {Drum}
      [] OTHER -> RawNames

\* --dry-run: given or not
PoolDry(pool) == IF pool = "race" THEN {FALSE} ELSE BOOLEAN

PoolExts(pool) ==
    CASE pool = "ext" -> {<<>>, ExtBar, ExtDotBar, ExtTwo}
      [] pool = "traverse" -> {ExtTraverse, ExtOntoReadme}
      [] OTHER -> {<<>>}

Scenarios ==
    {s \in [strategy : {"central", "peg"}, rootG : BOOLEAN,
            host : HostScenarios \cup PartialHosts \cup DupHosts,
            pre : {"none", "plugin", "lua"}, denied : BOOLEAN, pool : Pools] :
        /\ IF PoolHosts(s.pool) # {}
           THEN s.host \in PoolHosts(s.pool) /\ ~s.rootG /\ s.pre = "none" /\ ~s.denied
           ELSE /\ s.host \in HostScenarios
                /\ Cardinality({x \in {"rootG", "host", "pre", "denied", "pool"} :
                                  CASE x = "rootG" -> s.rootG
                                    [] x = "host" -> s.host # HostBase
                                    [] x = "pre" -> s.pre # "none"
                                    [] x = "denied" -> s.denied
                                    [] x = "pool" -> s.pool # "std"}) <= 1
        /\ s.strategy = "peg" =>
             s.host \in {HostBase, [HostBase EXCEPT ![3] = [present |-> FALSE, content |-> <<>>]]}}

ScenarioRoot(s) == IF s.rootG THEN RootG ELSE RootP

ScenarioFiles(s) ==
    LET root  == ScenarioRoot(s)
        hosts == {h \in Hosts : s.host[h].present}
        pre   == PreFiles(s.strategy, root, s.pre)
    IN [p \in {HostPath(root, h) : h \in hosts} \cup pre |->
          IF p \in pre THEN Manual
          ELSE s.host[CHOOSE h \in hosts : HostPath(root, h) = p].content]

ScenarioDirs(s) ==
    UNION {Ancestors(p) : p \in DOMAIN ScenarioFiles(s)}
      \cup {RootP, RootG, Append(RootP, Lit("scripts"))}

ScenarioEnv(s) ==
    [strategy |-> s.strategy,
     denied |-> IF s.denied THEN DeniedPaths(s.strategy, ScenarioRoot(s)) ELSE {},
     names |-> PoolNames(s.pool),
     exts |-> PoolExts(s.pool),
     dry |-> PoolDry(s.pool)]

IdleRun ==
    [raw |-> <<>>, name |-> <<>>, args_extensions |-> <<>>,
     extensions |-> <<>>, dry_run |-> FALSE,
     root |-> NoRoot, k |-> 0, h |-> 0, content |-> <<>>, status |-> 0,
     report |-> <<>>, files0 |-> <<>>, dirs0 |-> {}]

\* Two invocations at a time: real centralized runs, for one identifier or
\* for two, in a project as shipped.
RaceScenarios ==
    {[strategy |-> "central", rootG |-> FALSE, host |-> HostBase, pre |-> "none",
      denied |-> FALSE, pool |-> "race"]}

InitWith(procs, scenarios) ==
    \E s \in scenarios :
        /\ files = ScenarioFiles(s)
        /\ dirs = ScenarioDirs(s)
        /\ env = ScenarioEnv(s)
        /\ pc = [p \in procs |-> "idle"]
        /\ run = [p \in procs |-> IdleRun]
        /\ nruns = [p \in procs |-> 0]

Init == InitWith({1}, Scenarios)

InitRace == InitWith({1, 2}, RaceScenarios)

-----------------------------------------------------------------------------
(* Actions *)

M(p) == [files |-> files, dirs |-> dirs, env |-> env, pc |-> pc[p], run |-> run[p]]

Becomes(p, m) ==
    /\ files' = m.files
    /\ dirs' = m.dirs
    /\ pc' = [pc EXCEPT ![p] = m.pc]
    /\ run' = [run EXCEPT ![p] = m.run]
    /\ UNCHANGED env

\* python new_lang.py / new_lang_peg.py NAME [-e EXT ...] [--dry-run]
Main(p) ==
    /\ pc[p] \in Terminal \cup {"idle"}
    /\ nruns[p] < MaxRuns
    /\ \E raw \in env.names, exts_arg \in env.exts, dry \in env.dry :
          Becomes(p, MainStep(M(p), raw, exts_arg, dry))
    /\ nruns' = [nruns EXCEPT ![p] = @ + 1]

EmitFile(p) ==
    /\ pc[p] = "emit"
    /\ RunArtifacts(M(p))[run[p].k].kind = "file"
    /\ Becomes(p, EmitFileStep(M(p)))
    /\ UNCHANGED nruns

MkImplDir(p) ==
    /\ pc[p] = "emit"
    /\ RunArtifacts(M(p))[run[p].k].kind = "dir"
    /\ Becomes(p, MkImplDirStep(M(p)))
    /\ UNCHANGED nruns

HostRead(p) ==
    /\ pc[p] = "host_read"
    /\ Becomes(p, HostReadStep(M(p)))
    /\ UNCHANGED nruns

HostWrite(p) ==
    /\ pc[p] = "host_write"
    /\ Becomes(p, HostWriteStep(M(p)))
    /\ UNCHANGED nruns

Finish(p) ==
    /\ pc[p] = "finish"
    /\ Becomes(p, FinishStep(M(p)))
    /\ UNCHANGED nruns

Next ==
    \/ Main(1)
    \/ EmitFile(1)
    \/ MkImplDir(1)
    \/ HostRead(1)
    \/ HostWrite(1)
    \/ Finish(1)

Spec == Init /\ [][Next]_vars

\* Two shells, one invocation each: either starts whenever it likes, and the
\* steps of the two processes interleave freely (the scripts take no lock).
\* What a run found when it started is not recorded here.
RaceMain(p) ==
    /\ pc[p] = "idle"
    /\ nruns[p] = 0
    /\ \E raw \in env.names, exts_arg \in env.exts, dry \in env.dry :
          LET m == MainStep(M(p), raw, exts_arg, dry)
          IN Becomes(p, [m EXCEPT !.run = [m.run EXCEPT !.files0 = <<>>, !.dirs0 = {}]])
    /\ nruns' = [nruns EXCEPT ![p] = @ + 1]

NextRace ==
    \/ RaceMain(1)
    \/ EmitFile(1)
    \/ MkImplDir(1)
    \/ HostRead(1)
    \/ HostWrite(1)
    \/ Finish(1)
    \/ RaceMain(2)
    \/ EmitFile(2)
    \/ MkImplDir(2)
    \/ HostRead(2)
    \/ HostWrite(2)
    \/ Finish(2)

SpecRace == InitRace /\ [][NextRace]_vars

\* The whole invocation as a function of the state it starts in.
StepM(m) ==
    CASE m.pc = "emit" ->
           IF RunArtifacts(m)[m.run.k].kind = "file"
           THEN EmitFileStep(m) ELSE MkImplDirStep(m)
      [] m.pc = "host_read" -> HostReadStep(m)
      [] m.pc = "host_write" -> HostWriteStep(m)
      [] m.pc = "finish" -> FinishStep(m)
      [] OTHER -> m

RECURSIVE RunToEnd(_)
RunToEnd(m) == IF m.pc \in Terminal THEN m ELSE RunToEnd(StepM(m))

\* main() run to completion from the file system of m.
Invoke(m, raw, exts_arg, dry) == RunToEnd(MainStep(m, raw, exts_arg, dry))

-----------------------------------------------------------------------------
(* Properties.  They speak of process 1, the single invocation at a time   *)
(* of Spec.                                                                 *)

R == run[1]

Started == pc[1] # "idle"
Ended == pc[1] \in Terminal
Central == env.strategy = "central"

\* The file system the current invocation started from.
Before == [files |-> R.files0, dirs |-> R.dirs0, env |-> env, pc |-> "idle", run |-> IdleRun]

Lines(report) == {report[i] : i \in 1..Len(report)}

\* Emission step i of the run with report lines report wrote artifact i: the
\* i-th line of a run is that of its i-th emission.
Wrote(report, arts, i) ==
    i <= Len(report) /\ report[i] = <<"created", arts[i].path>>
Count(content, tok) == Cardinality({i \in 1..Len(content) : content[i] = tok})

HostContents(fs, root) ==
    [h \in Hosts |-> IF HostPath(root, h) \in DOMAIN fs
                     THEN fs[HostPath(root, h)] ELSE <<>>]

\* The pattern ^[a-z][a-z0-9]*$ read as Python's re.match reads it.
MatchesPattern(s) ==
    LET body == IF Len(s) >= 2 /\ s[Len(s)] = "\n" THEN SubSeq(s, 1, Len(s) - 1) ELSE s
    IN /\ body # <<>>
       /\ body[1] \in LowerLetters
       /\ \A i \in 2..Len(body) : body[i] \in LowerLetters \cup Digits

\* No CMakeLists.txt marker beside or above the scripts directory.
NoMarker(fs) ==
    \A root \in {RootP, RootG} :
        Marker(root) \notin DOMAIN fs.files /\ Marker(root) \notin fs.dirs

Unchanged == files = R.files0 /\ dirs = R.dirs0

\* C1: after a real centralized run, running the generator again with the
\* same inputs leaves the content of every host file as it is, whatever
\* anchors the host files hold.
C1_Idempotence ==
    (pc[1] = "done" /\ Central /\ ~R.dry_run) =>
        LET again == Invoke(M(1), R.raw, R.extensions, FALSE)
        IN HostContents(again.files, R.root) = HostContents(files, R.root)

\* The host file h that the last line of the report says was updated.
JustUpdated(h) ==
    /\ R.report # <<>>
    /\ R.report[Len(R.report)] = <<"updated", HostPath(R.root, h)>>

\* One application of the patch of host file h to a file holding content.
ApplyPatch(h, name, content) ==
    IF GuardIn(h, name, content) THEN content ELSE Patch(content, h, name)

\* C2: when a host file holds a record's anchor and not the guard, one
\* application inserts the record's text exactly once, immediately after the
\* anchor, and a second application leaves the file as the first left it.
C2_AnchorPatch ==
    \A h \in Hosts :
        JustUpdated(h) =>
            LET old == R.content
                new == files[HostPath(R.root, h)]
            IN /\ \A r \in 1..RecordCount(h) :
                    Anchor(h, r) \in Toks(old) =>
                        /\ Count(new, Ins(h, r, R.name)) = 1
                        /\ \E i \in 1..(Len(new) - 1) :
                              new[i] = Anchor(h, r) /\ new[i + 1] = Ins(h, r, R.name)
               /\ ApplyPatch(h, R.name, new) = new

\* Host file h has been dealt with by the current invocation.
Passed(h) == pc[1] \in {"finish", "done"} \/ (pc[1] \in {"host_read", "host_write"} /\ R.h > h)

\* Host file h existed at the start, without the guard and without the anchor
\* of at least one of its records.
AnchorMissing(h) ==
    LET path == HostPath(R.root, h)
    IN /\ path \in DOMAIN R.files0
       /\ ~GuardIn(h, R.name, R.files0[path])
       /\ \E r \in 1..RecordCount(h) : Anchor(h, r) \notin Toks(R.files0[path])

\* C3: a host file that exists, lacks the guard and lacks an expected anchor
\* gets an anchor-not-found outcome (not an update, not an I/O error) and is
\* left unmodified.
C3_AnchorNotFound ==
    \A h \in Hosts :
        (Central /\ Passed(h) /\ AnchorMissing(h)) =>
            LET path == HostPath(R.root, h)
            IN /\ <<"anchor_not_found", path>> \in Lines(R.report)
               /\ <<"updated", path>> \notin Lines(R.report)
               /\ <<"would_update", path>> \notin Lines(R.report)
               /\ files[path] = R.files0[path]

\* C4: the exit status is non-zero exactly when validation fails, root
\* discovery fails, or an anchor was not found.
C4_ExitStatus ==
    Ended =>
        (R.status # 0 <=>
            \/ ~MatchesPattern(R.name)
            \/ NoMarker(Before)
            \/ (Central /\ \E h \in Hosts : AnchorMissing(h)))

C6_FailFast ==
    (Started /\ (NoMarker(Before) \/ ~MatchesPattern(to_lower(R.raw)))) =>
        /\ pc[1] = "exit" /\ R.status = 1
        /\ R.k = 0 /\ R.h = 0
        /\ Unchanged
        /\ R.report = << <<"error", NoPath>> >>

C6_Witness ==
    pc[1] = "exit" /\ NoMarker(Before) /\ MatchesPattern(to_lower(R.raw)) /\ Central

\* C7: a dry run changes no file and no directory at any of its steps, and
\* the real run that follows it ends with the files, directories and report
\* of the real run started in its place.
C7_DryRunNoMutation ==
    (Started /\ R.dry_run) =>
        /\ Unchanged
        /\ Ended =>
             LET after == Invoke(M(1), R.raw, R.extensions, FALSE)
                 alone == Invoke(Before, R.raw, R.extensions, FALSE)
             IN /\ after.files = alone.files
                /\ after.dirs = alone.dirs
                /\ after.run.report = alone.run.report
                /\ after.run.status = alone.run.status

C7_Witness ==
    /\ pc[1] = "done" /\ R.dry_run /\ Central
    /\ <<"would_update", HostPath(R.root, 1)>> \in Lines(R.report)
    /\ <<"would_create", CentralArtifacts(R.root, R.name)[6].path>> \in Lines(R.report)

\* The action a report line stands for, whether done or only announced.
ActionKind(kind) ==
    CASE kind \in {"created", "would_create"} -> "create"
      [] kind \in {"updated", "would_update"} -> "update"
      [] kind = "skipped" -> "skip"
      [] OTHER -> "error"

Actions(report) == [i \in 1..Len(report) |-> <<ActionKind(report[i][1]), report[i][2]>>]

\* C8: from one and the same state a dry run and a real run report the same
\* ordered list of (action kind, target path), for both strategies.
C8_DryRunEquivalence ==
    (pc[1] \in Terminal \cup {"idle"}) =>
        \A raw \in env.names, exts_arg \in env.exts :
            Actions(Invoke(M(1), raw, exts_arg, TRUE).run.report)
              = Actions(Invoke(M(1), raw, exts_arg, FALSE).run.report)

\* C9: once emission has begun, a failed write is reported and every other
\* artifact is still attempted; the centralized run goes on to the host files.
C9_EmissionNotFatal ==
    (Ended /\ R.k >= 1) =>
        LET arts == RunArtifacts(M(1))
        IN /\ \A i \in 1..Len(arts) :
                \E line \in Lines(R.report) : line[2] = arts[i].path
           /\ Central => R.h = HostCount

\* The file artifacts among arts, by emission index.
FileArtifacts(arts) == {i \in 1..Len(arts) : arts[i].kind = "file"}

Rendered(i) == Render(env.strategy, i, R.name, R.extensions)

\* The path of artifact i holds the rendered template i.
Holds(arts, i) ==
    /\ Resolve(arts[i].path) \in DOMAIN files
    /\ files[Resolve(arts[i].path)] = Rendered(i)

\* Whether a path as given names the file at a resolved path; a path without
\* ".." steps names itself.
SamePath(given, resolved) ==
    IF Len(given) = Len(resolved) /\ given = resolved THEN TRUE
    ELSE Indirect(given) /\ Resolve(given) = resolved

\* Artifact i counts as written: by its report line, or (all) because the
\* run reached its end.
Written(report, all, arts, i) == all \/ Wrote(report, arts, i)

\* In the files fs the path of written artifact i holds the rendered
\* template of the last written artifact that has this path.
HoldsLast(fs, report, all, arts, subs, i) ==
    LET path == Resolve(arts[i].path)
    IN /\ path \in DOMAIN fs
       /\ \E j \in i..Len(arts) :
             /\ fs[path] = << <<"R", StrategyId(env.strategy), j, subs>> >>
             /\ j # i => (Written(report, all, arts, j) /\ Resolve(arts[j].path) = path)
             /\ \A k \in (j + 1)..Len(arts) :
                   Written(report, all, arts, k) => ~SamePath(arts[k].path, path)

C11_PegZeroPatches ==
    (Started /\ ~Central /\ R.root # NoRoot) =>
        \A h \in Hosts :
            LET path == HostPath(R.root, h)
            IN path \in DOMAIN R.files0 =>
                 (path \in DOMAIN files /\ files[path] = R.files0[path])

\* The host files as the current invocation found them: all six present,
\* each with every anchor of its records and without the guard.
HostsReady ==
    \A h \in Hosts :
        LET path == HostPath(R.root, h)
        IN /\ path \in DOMAIN R.files0
           /\ \A r \in 1..RecordCount(h) : Count(R.files0[path], Anchor(h, r)) = 1
           /\ ~GuardIn(h, R.name, R.files0[path])

\* A real centralized run for "fog" over ready host files has reached its end.
FogDone == pc[1] = "done" /\ Central /\ ~R.dry_run /\ R.name = Fog /\ HostsReady

\* C12 as stated: after a real centralized run for "fog" over six host files
\* that hold all anchors and no guard, each host file is reported updated and
\* holds the guard string for fog exactly once.
C12_GuardExactlyOnce ==
    FogDone =>
        \A h \in Hosts :
            /\ <<"updated", HostPath(R.root, h)>> \in Lines(R.report)
            /\ GuardCount(h, R.name, files[HostPath(R.root, h)]) = 1

\* C12 amended: each of the six host files is reported updated, keeps what
\* it held, holds the inserted text of each of its records exactly once and
\* therefore the guard string at least once; the guard string occurs once
\* only in lang_dispatch.c and psnd_psnd_binary.cmake.
C12_EndToEnd ==
    FogDone =>
        \A h \in Hosts :
            LET path == HostPath(R.root, h)
                new  == files[path]
            IN /\ <<"updated", path>> \in Lines(R.report)
               /\ SelectSeq(new, LAMBDA t : t[1] # "I") = R.files0[path]
               /\ \A r \in 1..RecordCount(h) : Count(new, Ins(h, r, Fog)) = 1
               /\ GuardCount(h, Fog, new) >= 1
               /\ GuardCount(h, Fog, new) = 1 <=> h \in {2, 5}

C12_Witness ==
    /\ FogDone
    /\ \A h \in Hosts : GuardIn(h, Fog, files[HostPath(R.root, h)])
    /\ GuardCount(1, Fog, files[HostPath(R.root, 1)]) = 7

\* The extension without its leading dots: the suffix that does not start
\* with a dot and is preceded by dots only.
Stripped(e) ==
    LET k == CHOOSE k \in 0..Len(e) :
                 /\ \A j \in 1..k : e[j] = "."
                 /\ k < Len(e) => e[k + 1] # "."
    IN SubSeq(e, k + 1, Len(e))

Dotted(e) == <<".">> \o Stripped(e)

\* The substitution values a rendered artifact embeds.
Embedded(content) == content[1][4]

\* C13: every artifact a real run has written embeds each extension as one
\* dot followed by the extension without its leading dots (the primary
\* extension after a dot that the template supplies), and the run started
\* in its place with every extension spelled without a dot, or with one dot,
\* ends with the same files, whatever the spelling given.
C13_ExtensionNormalization ==
    (Ended /\ ~R.dry_run /\ R.extensions # <<>>) =>
        LET arts   == RunArtifacts(M(1))
            n      == Len(R.extensions)
            bare   == [j \in 1..n |-> Stripped(R.extensions[j])]
            dotted == [j \in 1..n |-> Dotted(R.extensions[j])]
        IN /\ \A i \in FileArtifacts(arts) :
                Wrote(R.report, arts, i) =>
                    LET subs == Embedded(files[Resolve(arts[i].path)])
                    IN /\ Len(subs) = 3 + n + 1
                       /\ \A j \in 1..n : subs[3 + j] = Dotted(R.extensions[j])
                       /\ subs[3 + n + 1] = Stripped(R.extensions[1])
           /\ \A other \in {bare, dotted} \ {R.extensions} :
                Invoke(Before, R.raw, other, FALSE).files = files

C13_Witness ==
    /\ pc[1] = "done" /\ ~R.dry_run /\ R.extensions = ExtTwo
    /\ \E p \in DOMAIN files :
          /\ files[p][1][1] = "R"
          /\ Embedded(files[p])[4] = <<".", "b", "a", "r">>
          /\ Embedded(files[p])[5] = <<".", "b">>

\* The current invocation was given no -e argument and an identifier that
\* passes validation.
NoExtensionsGiven ==
    /\ Started /\ R.args_extensions = <<>>
    /\ MatchesPattern(to_lower(R.raw))
    /\ ~(~Central /\ to_lower(R.raw) \in Reserved)

\* C14: a run given no extension list works with the single extension that
\* is the lower-case identifier, and every artifact it writes embeds that
\* extension, behind one dot, as the only and primary one.
C14_DefaultExtension ==
    NoExtensionsGiven =>
        LET arts == RunArtifacts(M(1))
            id   == to_lower(R.raw)
            subs == <<id, to_upper(id), to_title(id), <<".">> \o id, id>>
        IN /\ Len(R.extensions) = 1
           /\ Stripped(R.extensions[1]) = id
           /\ \A i \in FileArtifacts(arts) :
                Wrote(R.report, arts, i) =>
                    /\ Resolve(arts[i].path) \in DOMAIN files
                    /\ Embedded(files[Resolve(arts[i].path)]) = subs

C14_Witness ==
    /\ NoExtensionsGiven /\ pc[1] = "done" /\ ~R.dry_run /\ R.raw = Foo
    /\ LET arts == RunArtifacts(M(1))
       IN Embedded(files[arts[2].path])[4] = <<".", "f", "o", "o">>

\* The invocation has passed validation and root discovery.
Accepted == Started /\ R.root # NoRoot /\ R.extensions # <<>>

\* The current invocation repeated, with the same command line, from the
\* file system as it is now.
Again == Invoke(M(1), R.raw, R.args_extensions, R.dry_run)

\* What a report line says was attempted: an emission or a host file
\* outcome, and the target path.
Attempt(line) ==
    <<IF line[1] \in {"updated", "would_update", "skipped"} THEN "host"
      ELSE IF line[1] = "error" THEN "error" ELSE "emit",
      line[2]>>

Attempts(report) == [i \in 1..Len(report) |-> Attempt(report[i])]

HostIndex(root, line) == CHOOSE h \in Hosts : HostPath(root, h) = line[2]

\* The lines of a run follow the fixed list: its i-th emission is artifact
\* i, and the host outcomes come after the emissions in rising host order.
InListOrder(r, arts) ==
    /\ \A i \in 1..r.k : Attempt(r.report[i]) = <<"emit", arts[i].path>>
    /\ \A i \in (r.k + 1)..Len(r.report) :
          /\ r.k >= 1 => Attempt(r.report[i])[1] = "host"
          /\ r.k = 0 => Attempt(r.report[i])[1] = "error"
    /\ \A i, j \in (r.k + 1)..Len(r.report) :
          (r.k >= 1 /\ i < j) => HostIndex(r.root, r.report[i]) < HostIndex(r.root, r.report[j])

HostOutcomes == {"updated", "would_update", "skipped", "warning", "error"}

\* The lines of the report that give an outcome for host file h.
OutcomeLines(h) ==
    {i \in 1..Len(R.report) :
        R.report[i][1] \in HostOutcomes /\ R.report[i][2] = HostPath(R.root, h)}

\* C16: a centralized run that reaches its end has reported exactly one
\* outcome for each of the six host files, also for a host file that does
\* not exist, and one that is not "updated" for a host file that lacks an
\* anchor.
C16_CompleteReporting ==
    (pc[1] = "done" /\ Central) =>
        \A h \in Hosts :
            /\ Cardinality(OutcomeLines(h)) = 1
            /\ AnchorMissing(h) =>
                 \A i \in OutcomeLines(h) : R.report[i][1] \in {"warning", "error"}

\* C17: in a centralized run no artifact has the path of a host file, and a
\* host file the patch phase has not reached yet holds what it held when the
\* run started.
C17_HostsOnlyPatched ==
    (Accepted /\ Central) =>
        LET arts == RunArtifacts(M(1))
        IN /\ \A i \in 1..Len(arts), h \in Hosts :
                Resolve(arts[i].path) # HostPath(R.root, h)
           /\ \A h \in Hosts :
                (pc[1] = "emit" \/ (pc[1] = "host_read" /\ R.h <= h)) =>
                    LET path == HostPath(R.root, h)
                    IN path \in DOMAIN R.files0 =>
                         (path \in DOMAIN files /\ files[path] = R.files0[path])

\* Process p has read host file h and is about to write it.
RECURSIVE RemoveInserted(_, _, _)
\* The content left when the block of identifier n that stands at each
\* anchor of host file h (before it in lang_dispatch.c, after it elsewhere)
\* is taken out again.
RemoveInserted(content, h, n) ==
    IF Len(content) < 2 THEN content
    ELSE LET a == content[1]
             b == content[2]
         IN IF InsertBefore(h)
            THEN IF a[1] = "I" /\ a[4] = n /\ b = Anchor(h, a[3])
                 THEN <<b>> \o RemoveInserted(Tail(Tail(content)), h, n)
                 ELSE <<a>> \o RemoveInserted(Tail(content), h, n)
            ELSE IF b[1] = "I" /\ b[4] = n /\ a = Anchor(h, b[3])
                 THEN <<a>> \o RemoveInserted(Tail(Tail(content)), h, n)
                 ELSE <<a>> \o RemoveInserted(Tail(content), h, n)

AboutToWrite(p, h) == pc[p] = "host_write" /\ run[p].h = h /\ ~run[p].dry_run

\* C18: a real centralized run that has read a host file and found the guard
\* absent goes on to write that file, with what it read plus its insertions,
\* whatever another run has written to the file in the meantime; so two runs
\* for one identifier that both read before either writes both write.
C18_CheckThenAct ==
    \A p \in {1, 2}, h \in Hosts :
        AboutToWrite(p, h) =>
            LET path == HostPath(run[p].root, h)
                read == run[p].content
                m    == HostWriteStep(M(p))
            IN /\ ~GuardIn(h, run[p].name, read)
               /\ m.pc \in {"host_read", "finish"}
               /\ m.run.report = Append(run[p].report, <<"updated", path>>)
               /\ RemoveInserted(m.files[path], h, run[p].name) = read
               /\ \A r \in 1..RecordCount(h) :
                    Count(m.files[path], Ins(h, r, run[p].name)) = Count(read, Anchor(h, r))

\* Both processes read lang_config.h before either wrote it; the first has
\* written it since, and the second is about to write it too.
C18_Witness ==
    /\ AboutToWrite(2, 1)
    /\ run[1].name = run[2].name /\ run[1].root = run[2].root
    /\ ~run[1].dry_run /\ run[1].content = run[2].content
    /\ ~GuardIn(1, run[2].name, run[2].content)
    /\ <<"updated", HostPath(run[1].root, 1)>> \in Lines(run[1].report)
    /\ GuardIn(1, run[2].name, files[HostPath(run[2].root, 1)])

\* C19: a run ends only by completing its phases in order or by an abort
\* before its first emission, and a host file is read or written only once
\* every artifact emission has been attempted.
C19_PhaseOrder ==
    Started =>
        /\ pc[1] \in {"host_read", "host_write"} =>
              (R.k = Len(RunArtifacts(M(1))) /\ Len(R.report) >= R.k)
        /\ Ended =>
              \/ pc[1] = "done" /\ R.k = Len(RunArtifacts(M(1))) /\ (Central => R.h = HostCount)
              \/ pc[1] = "exit" /\ R.k = 0 /\ R.h = 0

\* C20: a host file is reported as already holding the identifier's patch
\* only if it held text inserted for that identifier when the run started.
C20_GuardSound ==
    (Accepted /\ Central) =>
        \A h \in Hosts :
            <<"skipped", HostPath(R.root, h)>> \in Lines(R.report) =>
                \E r \in 1..RecordCount(h) :
                    Ins(h, r, R.name) \in Toks(R.files0[HostPath(R.root, h)])

\* Host file h held the guard string of the run's identifier when the run
\* started.
GuardAtStart(h) ==
    LET path == HostPath(R.root, h)
    IN path \in DOMAIN R.files0 /\ GuardIn(h, R.name, R.files0[path])

\* C21: one guard per host file and no self-repair: a host file that held the
\* guard string when the run started is skipped as a whole and not written,
\* also when the block of one of its records is missing under an anchor that
\* is still there.
C21_NoSelfRepair ==
    \A h \in Hosts :
        (Central /\ Passed(h) /\ GuardAtStart(h)) =>
            LET path == HostPath(R.root, h)
            IN /\ <<"skipped", path>> \in Lines(R.report)
               /\ <<"updated", path>> \notin Lines(R.report)
               /\ <<"would_update", path>> \notin Lines(R.report)
               /\ files[path] = R.files0[path]

C21_Witness ==
    LET path == HostPath(R.root, 1)
    IN /\ pc[1] = "done" /\ Central /\ ~R.dry_run /\ R.name = Drum
       /\ GuardAtStart(1)
       /\ Anchor(1, 2) \in Toks(files[path])
       /\ Ins(1, 1, Drum) \in Toks(files[path])
       /\ Ins(1, 2, Drum) \notin Toks(files[path])
       /\ <<"skipped", path>> \in Lines(R.report)

\* C22: file-level atomicity: when the anchor of one record of a host file is
\* absent, the run writes none of that file's other records, so the file is
\* left without any insertion of the run.
C22_FileAtomicity ==
    \A h \in Hosts :
        (Central /\ Passed(h) /\ AnchorMissing(h)) =>
            \A r \in 1..RecordCount(h) :
                Ins(h, r, R.name) \notin Toks(files[HostPath(R.root, h)])

\* The patch step of host file h has just written it: R.content is still
\* the content that step started from.
JustPatched(h) ==
    /\ JustUpdated(h)
    /\ IF h < HostCount THEN pc[1] = "host_read" /\ R.h = h + 1 ELSE pc[1] = "finish"

\* C23: single substitution: a patch adds the insertion of each record whose
\* anchor is in the file exactly once, also when the anchor literal occurs
\* more than once in the file.
C23_SingleSubstitution ==
    \A h \in Hosts :
        (Central /\ JustPatched(h)) =>
            \A r \in 1..RecordCount(h) :
                Anchor(h, r) \in Toks(R.content) =>
                    Count(files[HostPath(R.root, h)], Ins(h, r, R.name))
                        = Count(R.content, Ins(h, r, R.name)) + 1

\* C24: patching disturbs nothing else: when a host file has just been
\* written by a patch, taking the blocks inserted by that patch out again
\* gives the content the patch started from; every earlier token, anchors
\* included, is still there in its order.
C24_PatchFrame ==
    \A h \in Hosts :
        (Central /\ JustPatched(h)) =>
            LET new == files[HostPath(R.root, h)]
            IN /\ RemoveInserted(new, h, R.name) = R.content
               /\ \A r \in 1..RecordCount(h) :
                     Count(new, Anchor(h, r)) = Count(R.content, Anchor(h, r))

C24_Witness ==
    LET new == files[HostPath(R.root, 1)]
    IN /\ Central /\ JustPatched(1) /\ R.name = Drum
       /\ new # R.content
       /\ \A r \in 1..RecordCount(1) : Ins(1, r, Drum) \in Toks(new)
       /\ Count(R.content, Anchor(1, 1)) = 2

\* C25: emission order independence: the target paths of the artifacts of
\* one run are pairwise distinct, for every valid identifier and every
\* extension list.
C25_DistinctTargets ==
    (Started /\ Accepted) =>
        LET arts == RunArtifacts(M(1))
        IN \A i, j \in DOMAIN arts :
              i # j => Resolve(arts[i].path) # Resolve(arts[j].path)

\* Host file h held every anchor once and the guard string of neither
\* identifier when the run started.
FreshFor(h, a, b) ==
    LET path == HostPath(R.root, h)
    IN /\ path \in DOMAIN R.files0
       /\ \A r \in 1..RecordCount(h) : Count(R.files0[path], Anchor(h, r)) = 1
       /\ ~GuardIn(h, a, R.files0[path])
       /\ ~GuardIn(h, b, R.files0[path])

\* C26: sequential registration: after a real centralized run for A and then
\* one for another identifier B, on host files that held all anchors and
\* neither guard, every host file holds each record's insertion for A and
\* for B exactly once and still holds every anchor.
C26_SequentialRegistration ==
    (Central /\ pc[1] = "done" /\ ~R.dry_run) =>
        \A raw \in env.names :
            LET b == to_lower(raw)
            IN (ReMatch(b) /\ b # R.name /\ \A h \in Hosts : FreshFor(h, R.name, b)) =>
                  LET after == Invoke(M(1), raw, <<>>, FALSE)
                  IN \A h \in Hosts : \A r \in 1..RecordCount(h) :
                        LET content == after.files[HostPath(R.root, h)]
                        IN /\ Count(content, Ins(h, r, R.name)) = 1
                           /\ Count(content, Ins(h, r, b)) = 1
                           /\ Count(content, Anchor(h, r)) = 1

\* C27: no lost update under interleaving: when two real centralized runs for
\* two different identifiers have both ended, each host file holds the
\* insertions of both.
C27_NoLostUpdate ==
    (pc = <<"done", "done">> /\ run[1].name # run[2].name) =>
        \A p \in {1, 2}, h \in Hosts : \A r \in 1..RecordCount(h) :
            Ins(h, r, run[p].name) \in Toks(files[HostPath(run[p].root, h)])

\* The report lines of the run that stand for a write to the path.
WritesTo(path) ==
    {i \in 1..Len(R.report) :
        R.report[i][1] \in {"created", "updated"} /\ Resolve(R.report[i][2]) = path}

\* The records of host file h whose insertion for the run's identifier has
\* been added to the file on disk since the run started.
AddedSoFar(h) ==
    LET path == HostPath(R.root, h)
    IN {r \in 1..RecordCount(h) :
          /\ path \in DOMAIN files /\ path \in DOMAIN R.files0
          /\ Count(files[path], Ins(h, r, R.name)) > Count(R.files0[path], Ins(h, r, R.name))}

\* C28: one write per host file: a real centralized run writes each of the
\* six host files at most once, and at no state of the run does a host file
\* on disk hold some but not all of the insertions the run makes to it.
C28_OneWritePerHost ==
    (Started /\ Central /\ ~R.dry_run) =>
        \A h \in Hosts :
            LET path == HostPath(R.root, h)
            IN /\ Cardinality(WritesTo(path)) <= 1
               /\ AddedSoFar(h) # {} =>
                     AddedSoFar(h) = {r \in 1..RecordCount(h) :
                                        Anchor(h, r) \in Toks(R.files0[path])}

\* C29: the self-contained generator and an existing plugin directory: a
\* real run that finds source/langs/<name> stops with exit status 1 before
\* its first write, so a real run repeated with the same command line changes
\* nothing; a dry run in the same state goes through and reports every
\* artifact as "would create".
C29_ExistingPluginDir ==
    (Started /\ ~Central /\ Accepted) =>
        /\ Exists(Before, PegLangDir(R.root, R.name)) =>
              IF R.dry_run
              THEN /\ Unchanged
                   /\ pc[1] \in {"emit", "done", "finish"}
                   /\ pc[1] = "done" =>
                         LET arts == RunArtifacts(M(1))
                         IN R.report = [i \in 1..Len(arts) |-> <<"would_create", arts[i].path>>]
              ELSE /\ pc[1] = "exit" /\ R.status = 1 /\ R.k = 0
                   /\ Unchanged
                   /\ R.report = << <<"error", PegLangDir(R.root, R.name)>> >>
        /\ (Ended /\ ~R.dry_run) =>
              LET again == Again
              IN /\ again.files = files /\ again.dirs = dirs
                 /\ again.pc = "exit" /\ again.run.status = 1

C29_Witness ==
    /\ ~Central /\ pc[1] = "exit" /\ ~R.dry_run /\ nruns[1] = 2 /\ R.name = Drum
    /\ Exists(Before, PegLangDir(R.root, R.name))
    /\ Holds(RunArtifacts(M(1)), 13)
    /\ R.report = << <<"error", PegLangDir(R.root, R.name)>> >>

\* The directories the artifacts of identifier n are meant for.
ConventionalDirs(strategy, root, n) ==
    IF strategy = "central"
    THEN {root \o <<Lit("src"), Lit("lang"), n>>,
          root \o <<Lit("tests"), n>>,
          root \o <<Lit("docs"), n>>,
          root \o <<Lit("scripts"), Lit("cmake")>>,
          root \o <<Lit(".psnd"), Lit("languages")>>}
    ELSE {PegLangDir(root, n), root \o <<Lit(".psnd"), Lit("languages")>>}

\* C30: write containment: every file a real run creates lies in one of the
\* conventional directories of its identifier and on the path of no other
\* artifact, for every valid identifier and every extension list.
C30_WriteContainment ==
    (Started /\ Accepted /\ ~R.dry_run) =>
        LET arts == RunArtifacts(M(1))
        IN \A i \in FileArtifacts(arts) :
              Wrote(R.report, arts, i) =>
                  LET path == Resolve(arts[i].path)
                  IN /\ \E d \in ConventionalDirs(env.strategy, R.root, R.name) :
                          IsPrefix(d, path) /\ Len(path) > Len(d)
                     /\ \A j \in DOMAIN arts :
                          j # i => Resolve(arts[j].path) # path

====
